---- MODULE Spec2Model ----
(***************************************************************************)
(* Model of the ElectroStore front end's client-side state:                *)
(*   - the cart store (core/cartStore) and the cart synchronisation hook   *)
(*     (hooks/useCartSync.ts) against the backend's per-user cart;         *)
(*   - the TTL cache layer (core/offlineCache.ts).                         *)
(* Spec is the cart synchronisation process, CacheSpec the cache layer.    *)
(***************************************************************************)
EXTENDS Integers, Sequences, FiniteSets, TLC

(***************************************************************************)
(* Bounds and program constants                                            *)
(***************************************************************************)
Products == {1, 2}          \* product ids of the catalog
Users == {1, 2}             \* user ids the backend knows
Unavailable == {2}          \* products the backend may refuse in a pushed cart
NoUser == 0                 \* state.user?.id ?? null
MaxQty == 2                 \* largest quantity a line reaches in the model
MaxInflight == 2            \* debounced pushes awaiting the server at once
MaxBurst == 3               \* mutations counted in one burst
MaxTicks == 2               \* advances of the clock
MaxCalls == 3               \* fetchWithCache calls made
MaxPending == 1             \* fetchWithCache calls awaiting their fetcher at once
MaxRevals == 2              \* fetchCurrentUser calls in flight at once
MaxLineQty == 3             \* largest quantity a command takes a line to
MaxStored == 3              \* localStorage items when clearExpiredCache is called
SYNC_DEBOUNCE_MS == 500
DEFAULT_TTL_MS == 600000    \* 1000 * 60 * 10
WHOAMI_TTL_MS == 300000     \* 1000 * 60 * 5
CacheKeys == {"productos", "categorias"}
Values == {"v1", "v2"}      \* what a fetcher may deliver (never null)
Ttls == {DEFAULT_TTL_MS, 3 * DEFAULT_TTL_MS}  \* ttl arguments of fetchWithCache (ms)
TimeSteps == {1, DEFAULT_TTL_MS} \* amounts by which the clock advances (ms)
Delays == {250}             \* amounts of time one Tick lets pass (ms)

Min(a, b) == IF a < b THEN a ELSE b
Max(a, b) == IF a > b THEN a ELSE b

VARIABLES
    userId,          \* useUserStore: state.user?.id ?? null
    items,           \* useCartStore: items (sequence of CartItem)
    initializedRef,  \* useCartSync: initializedRef.current
    boot,            \* the bootstrap started by the last run of the first effect
    timers,          \* pending window.setTimeout callbacks of the push effect
    timeout,         \* the timer id the push effect's cleanup will clear (0: none)
    inflight,        \* this session's debounced syncCart requests on their way, oldest first
                     \* (stale: the backend has already applied a later one)
    orphan,          \* whether a bootstrap whose effect run was cleaned up (cancelled
                     \* = true) is still in an await
    hist,            \* history: what the current bootstrap has done
    lastApplied,     \* history: whether the last step applied a push, and which, or
                     \* was the return of a cancelled bootstrap
    burst            \* history: the current burst of mutations made while synced

syncVars == <<userId, items, initializedRef, boot, timers, timeout, inflight,
              orphan, hist, lastApplied, burst>>

VARIABLES
    now,             \* Date.now()
    calls,           \* how many fetchWithCache calls have been made
    ticks,           \* how often time has advanced
    online,          \* navigator.onLine
    storage,         \* window.localStorage: the cache's entries in key(i) order
    pending,         \* fetchWithCache calls suspended in await fetcher()
    last,            \* history: what the last step of a fetchWithCache call did
    fresh            \* history: per key, the last value a fetcher delivered

cacheVars == <<now, calls, ticks, online, storage, pending, last, fresh>>

VARIABLES
    op               \* history: the cart store operation of the last step

cartVars == <<op>>

VARIABLES
    user,            \* useUserStore: user
    token,           \* useUserStore: token
    bearer,          \* api.defaults.headers.common.Authorization
    persisted,       \* localStorage "electrostore-auth": the persisted {user, token}
    effectToken,     \* the token the revalidation effect last ran with
    revals,          \* fetchCurrentUser() calls not yet settled
    issued,          \* backend: the user each token was issued to
    revoked,         \* backend: tokens it no longer accepts
    sess             \* history: how the last revalidation settled

sessionVars == <<user, token, bearer, persisted, effectToken, revals, issued,
                 revoked, sess>>

VARIABLES
    catalog,             \* Cart: useQuery data (the product catalog), or not loaded
    commandSuggestions,  \* Cart: commandSuggestions
    suggestionMode,      \* Cart: suggestionMode
    pendingQuantity,     \* Cart: pendingQuantity
    mic,                 \* the render whose interpretCommand a running recognition calls
    cmd                  \* history: the last instruction and what became of it

commandVars == <<catalog, commandSuggestions, suggestionMode, pendingQuantity, mic, cmd>>

VARIABLES
    outdated             \* history: cache keys whose entry is older than an admin mutation

adminVars == <<outdated>>

extraVars == <<cartVars, sessionVars, commandVars, adminVars>>

vars == <<syncVars, cacheVars, extraVars>>

(***************************************************************************)
(* Cart store (core/cartStore)                                             *)
(***************************************************************************)
CartItem(p, q) == [product |-> p, quantity |-> q]

HasProduct(its, p) == \E i \in 1..Len(its) : its[i].product = p

\* Mutant of mapCartResponseToItems: the line's cantidad is not carried over.
mapCartResponseToItems_NoCantidad(detalles) ==
    [i \in 1..Len(detalles) |-> CartItem(detalles[i].producto, 1)]

\* mapCartResponseToItems: (cart.detalles ?? []).map(...)
mapCartResponseToItems(detalles) ==
    [i \in 1..Len(detalles) |->
        CartItem(detalles[i].producto, detalles[i].cantidad)]

\* hydrateFromServer: set({ items: mapped })
hydrateFromServer(detalles) == mapCartResponseToItems(detalles)

\* Mutant of addItem: the product is appended without looking for its line.
addItem_AlwaysAppends(its, p) == Append(its, CartItem(p, 1))

\* addItem: increment the existing line or append a new line of quantity 1
addItem(its, p) ==
    IF HasProduct(its, p)
    THEN [i \in 1..Len(its) |->
            IF its[i].product = p
            THEN CartItem(its[i].product, its[i].quantity + 1)
            ELSE its[i]]
    ELSE Append(its, CartItem(p, 1))

\* removeItem: filter out the product
removeItem(its, p) == SelectSeq(its, LAMBDA it : it.product # p)

\* Mutant of updateQuantity: the quantity is stored as given.
updateQuantity_NoFloor(its, p, q) ==
    [i \in 1..Len(its) |->
        IF its[i].product = p THEN CartItem(its[i].product, q) ELSE its[i]]

\* updateQuantity: quantity normalised to Math.max(1, quantity)
updateQuantity(its, p, q) ==
    [i \in 1..Len(its) |->
        IF its[i].product = p THEN CartItem(its[i].product, Max(1, q)) ELSE its[i]]

\* clear
clear(its) == << >>

(***************************************************************************)
(* useCartSync                                                             *)
(***************************************************************************)
\* Mutant of Payload: every line is pushed with quantity 1.
Payload_QuantityOne(its) ==
    [i \in 1..Len(its) |-> [productId |-> its[i].product, quantity |-> 1]]

\* items.map((item) => ({ productId: item.product.id, quantity: item.quantity }))
Payload(its) ==
    [i \in 1..Len(its) |-> [productId |-> its[i].product, quantity |-> its[i].quantity]]

\* Mutant of PushGateOpen: the push effect only asks for a user.
PushGateOpen_IgnoresRef(u, ref) == u # NoUser

\* if (!userId || !initializedRef.current) return;
PushGateOpen(u, ref) == u # NoUser /\ ref

\* Mutant of ClearTimeout: the cleanup leaves the previous timer pending.
ClearTimeout_Missing(ts, tid) == ts

\* return () => window.clearTimeout(timeout)
ClearTimeout(ts, tid) == {t \in ts : t.id # tid}

FreshTimerId(ts) == CHOOSE n \in 1..(Cardinality(ts) + 1) : \A t \in ts : t.id # n

\* A push effect whose body never calls setTimeout.
PushEffect_NoTimer(ts, tid, u, its, ref) == <<ClearTimeout(ts, tid), 0>>

\* One run of the push effect (deps [items, userId]): the previous run's cleanup,
\* then the body with the new userId and items.  Gives <<timers, timeout>>.
PushEffect(ts, tid, u, its, ref) ==
    LET cleaned == ClearTimeout(ts, tid)
        id == FreshTimerId(cleaned)
    IN  IF PushGateOpen(u, ref)
        THEN <<cleaned \cup {[id |-> id, payload |-> Payload(its), elapsed |-> 0]}, id>>
        ELSE <<cleaned, 0>>

\* if (serverCart.detalles?.length)
ServerHasItems(detalles) == Len(detalles) > 0

\* The backend's answer to POST carritos/actual/: the lines it accepts (all of
\* them, or all but those of unavailable products).
ServerAccepts(payload) ==
    { LET kept == SelectSeq(payload, LAMBDA l : l.productId \in keep)
      IN  [i \in 1..Len(kept) |->
              [producto |-> kept[i].productId, cantidad |-> kept[i].quantity]]
      : keep \in {Products, Products \ Unavailable} }

NoBoot == [pc |-> "none", resp |-> << >>, payload |-> << >>]
BootDone == [pc |-> "done", resp |-> << >>, payload |-> << >>]
BootFetching == [pc |-> "fetching", resp |-> << >>, payload |-> << >>]

\* history: nobody has logged out since the cart last changed
NoLeft == [user |-> NoUser, items |-> << >>]

HistNone == [fromIdle |-> TRUE, early |-> FALSE, calls |-> 0, path |-> "none",
             fetched |-> << >>, local |-> << >>, sent |-> << >>, resp |-> << >>,
             left |-> NoLeft]
HistStart(idle) == [HistNone EXCEPT !.fromIdle = idle, !.path = "running"]

NoOrphan == "none"
Unmounted == [pc |-> "unmounted", resp |-> << >>, payload |-> << >>]

\* return () => { cancelled = true }: the bootstrap of the run cleaned up goes
\* on as a cancelled one (at most one is followed, the latest).
Cancel(b, o) ==
    IF b.pc \in {"fetching", "fetched", "pushing", "pushed"} THEN "awaiting" ELSE o

\* Mutant of Ignored: a cancelled bootstrap's result is applied all the same.
Ignored_Never(cancelled) == FALSE

\* if (cancelled) return;  if (!cancelled) { hydrateFromServer(synced) }
Ignored(cancelled) == cancelled

\* Mutant of Finally: a bootstrap that failed does not set initializedRef.
Finally_NotOnFailure(cancelled, failed, ref) == IF cancelled \/ failed THEN ref ELSE TRUE

\* finally { if (!cancelled) initializedRef.current = true }
Finally(cancelled, failed, ref) == IF cancelled THEN ref ELSE TRUE

NoApplied == "none"
NoBurst == [n |-> 0, age |-> 0, pushes |-> 0, firedAt |-> 0, snap |-> << >>]

Synced == userId # NoUser /\ initializedRef /\ boot.pc = "done"
Bootstrapping == userId # NoUser /\ boot.pc \notin {"none", "done", "unmounted"}

\* The carts GET carritos/actual/ may answer with: the backend owns the cart,
\* which may be empty, built on another device or left by an earlier push.
ServerCarts ==
    { << >>,
      <<[producto |-> 1, cantidad |-> 2]>>,
      <<[producto |-> 2, cantidad |-> 1], [producto |-> 1, cantidad |-> 1]>> }

SyncInit ==
    /\ userId = NoUser
    /\ items = << >>
    /\ initializedRef = FALSE
    /\ boot = NoBoot
    /\ timers = {}
    /\ timeout = 0
    /\ inflight = << >>
    /\ orphan = NoOrphan
    /\ hist = HistNone
    /\ lastApplied = NoApplied
    /\ burst = NoBurst

\* The user id becomes present: the bootstrap effect starts bootstrap(), the
\* push effect re-runs.
Login(u) ==
    /\ userId = NoUser
    /\ userId' = u
    /\ boot' = BootFetching
    /\ LET e == PushEffect(timers, timeout, u, items, initializedRef)
       IN  timers' = e[1] /\ timeout' = e[2]
    /\ inflight' = << >>
    /\ hist' = [HistStart(TRUE) EXCEPT !.left = hist.left]
    /\ burst' = NoBurst
    /\ lastApplied' = NoApplied
    /\ UNCHANGED <<cacheVars, extraVars, orphan, items, initializedRef>>

\* The user id changes from one user to another: both effects clean up and
\* re-run; initializedRef is only reset when the user id is absent.
SwitchUser(u) ==
    /\ userId # NoUser
    /\ userId # u
    /\ boot.pc # "unmounted"
    /\ userId' = u
    /\ inflight' = << >>
    /\ orphan' = Cancel(boot, orphan)
    /\ boot' = BootFetching
    /\ LET e == PushEffect(timers, timeout, u, items, initializedRef)
       IN  timers' = e[1] /\ timeout' = e[2]
    /\ hist' = HistStart(FALSE)
    /\ burst' = NoBurst
    /\ lastApplied' = NoApplied
    /\ UNCHANGED <<cacheVars, extraVars, items, initializedRef>>

\* A clearSession that empties the cart store as well.
CartAfterClearSession_Emptied(its) == << >>

\* clearSession: set({ user: null, token: null }); the cart store, with its
\* own persisted "electrostore-cart", is not touched.
CartAfterClearSession(its) == its

\* The user id becomes absent: initializedRef.current = false.
Logout ==
    /\ userId # NoUser
    /\ boot.pc # "unmounted"
    /\ userId' = NoUser
    /\ inflight' = << >>
    /\ orphan' = Cancel(boot, orphan)
    /\ boot' = NoBoot
    /\ initializedRef' = FALSE
    /\ LET e == PushEffect(timers, timeout, NoUser, items, FALSE)
       IN  timers' = e[1] /\ timeout' = e[2]
    /\ hist' = [HistNone EXCEPT !.left = [user |-> userId, items |-> items]]
    /\ burst' = NoBurst
    /\ lastApplied' = NoApplied
    /\ items' = CartAfterClearSession(items)
    /\ UNCHANGED <<cacheVars, extraVars>>

\* A cart store mutation: the new items array re-runs the push effect.
Mutate(its) ==
    /\ items' = its
    /\ LET e == PushEffect(timers, timeout, userId, its, initializedRef)
       IN  timers' = e[1] /\ timeout' = e[2]
    /\ hist' = IF boot.pc = "done" THEN HistNone ELSE [hist EXCEPT !.left = NoLeft]
    /\ burst' = IF Synced
                THEN [n |-> IF burst.n > 0 /\ burst.age < SYNC_DEBOUNCE_MS
                            THEN Min(burst.n + 1, MaxBurst) ELSE 1,
                      age |-> 0, pushes |-> 0, firedAt |-> 0, snap |-> << >>]
                ELSE NoBurst
    /\ lastApplied' = NoApplied
    /\ UNCHANGED <<cacheVars, extraVars, orphan, userId, initializedRef, boot, inflight>>

AddItem(p) ==
    /\ \A i \in 1..Len(items) : items[i].product = p => items[i].quantity < MaxQty
    /\ Mutate(addItem(items, p))

RemoveItem(p) == Mutate(removeItem(items, p))

UpdateQuantity(p, q) == Mutate(updateQuantity(items, p, q))

Clear == Mutate(clear(items))

\* GET carritos/actual/ is answered by the backend with the user's cart.
ServerAnswerFetch ==
    /\ boot.pc = "fetching"
    /\ \E cart \in ServerCarts : boot' = [boot EXCEPT !.pc = "fetched", !.resp = cart]
    /\ lastApplied' = NoApplied
    /\ UNCHANGED <<cacheVars, extraVars, orphan, userId, items, initializedRef, timers, timeout, inflight, hist, burst>>

\* bootstrap() resumes after await fetchCurrentCart(), not cancelled.
\* Server wins: hydrateFromServer(serverCart), then finally sets initializedRef;
\* the new items array re-runs the push effect after the ref is set.
BootstrapServerWins ==
    /\ boot.pc = "fetched"
    /\ ServerHasItems(boot.resp)
    /\ items' = hydrateFromServer(boot.resp)
    /\ initializedRef' = Finally(FALSE, FALSE, initializedRef)
    /\ boot' = BootDone
    /\ LET e == PushEffect(timers, timeout, userId, items', TRUE)
       IN  timers' = e[1] /\ timeout' = e[2]
    /\ hist' = [hist EXCEPT !.path = "server", !.fetched = boot.resp, !.local = items]
    /\ burst' = NoBurst
    /\ lastApplied' = NoApplied
    /\ UNCHANGED <<cacheVars, extraVars, orphan, userId, inflight>>

\* Server cart empty, local cart non-empty: await syncCart(payload).
BootstrapPushLocal ==
    /\ boot.pc = "fetched"
    /\ ~ServerHasItems(boot.resp)
    /\ Len(items) > 0
    /\ boot' = [pc |-> "pushing", resp |-> << >>, payload |-> Payload(items)]
    /\ hist' = [hist EXCEPT !.calls = @ + 1, !.fetched = boot.resp, !.local = items,
                            !.sent = Payload(items)]
    /\ lastApplied' = NoApplied
    /\ UNCHANGED <<cacheVars, extraVars, orphan, userId, items, initializedRef, timers, timeout, inflight, burst>>

\* Both carts empty: hydrateFromServer(serverCart).
BootstrapBothEmpty ==
    /\ boot.pc = "fetched"
    /\ ~ServerHasItems(boot.resp)
    /\ Len(items) = 0
    /\ items' = hydrateFromServer(boot.resp)
    /\ initializedRef' = Finally(FALSE, FALSE, initializedRef)
    /\ boot' = BootDone
    /\ LET e == PushEffect(timers, timeout, userId, items', TRUE)
       IN  timers' = e[1] /\ timeout' = e[2]
    /\ hist' = [hist EXCEPT !.path = "empty", !.fetched = boot.resp, !.local = items]
    /\ burst' = NoBurst
    /\ lastApplied' = NoApplied
    /\ UNCHANGED <<cacheVars, extraVars, orphan, userId, inflight>>

\* fetchCurrentCart() rejects: catch logs, finally sets initializedRef.  The
\* items are untouched, so the push effect does not re-run.
BootstrapFetchFail ==
    /\ boot.pc \in {"fetching", "fetched"}
    /\ initializedRef' = Finally(FALSE, TRUE, initializedRef)
    /\ boot' = BootDone
    /\ hist' = [hist EXCEPT !.path = "fetchfail"]
    /\ lastApplied' = NoApplied
    /\ UNCHANGED <<cacheVars, extraVars, orphan, userId, items, timers, timeout, inflight, burst>>

\* The backend handles the bootstrap's POST carritos/actual/.
ServerApplyBootstrapPush ==
    /\ boot.pc = "pushing"
    /\ \E r \in ServerAccepts(boot.payload) :
          boot' = [boot EXCEPT !.pc = "pushed", !.resp = r]
    /\ lastApplied' = NoApplied
    /\ UNCHANGED <<cacheVars, extraVars, orphan, userId, items, initializedRef, timers, timeout, inflight,
                   hist, burst>>

\* bootstrap() resumes after await syncCart(payload), not cancelled:
\* hydrateFromServer(synced), then finally.
BootstrapAdoptPush ==
    /\ boot.pc = "pushed"
    /\ items' = hydrateFromServer(boot.resp)
    /\ initializedRef' = Finally(FALSE, FALSE, initializedRef)
    /\ boot' = BootDone
    /\ LET e == PushEffect(timers, timeout, userId, items', TRUE)
       IN  timers' = e[1] /\ timeout' = e[2]
    /\ hist' = [hist EXCEPT !.path = "local", !.resp = boot.resp]
    /\ burst' = NoBurst
    /\ lastApplied' = NoApplied
    /\ UNCHANGED <<cacheVars, extraVars, orphan, userId, inflight>>

\* syncCart(payload) rejects during bootstrap (request or response lost).
BootstrapPushFail ==
    /\ boot.pc \in {"pushing", "pushed"}
    /\ initializedRef' = Finally(FALSE, TRUE, initializedRef)
    /\ boot' = BootDone
    /\ hist' = [hist EXCEPT !.path = "pushfail"]
    /\ lastApplied' = NoApplied
    /\ UNCHANGED <<cacheVars, extraVars, orphan, userId, items, timers, timeout, inflight, burst>>

\* Time passes; no pending timer is overrun.
Tick(d) ==
    /\ timers # {} \/ (burst.n > 0 /\ burst.age <= SYNC_DEBOUNCE_MS)
    /\ \A t \in timers : t.elapsed + d <= SYNC_DEBOUNCE_MS
    /\ timers' = {[t EXCEPT !.elapsed = @ + d] : t \in timers}
    /\ burst' = IF burst.n > 0
                THEN [burst EXCEPT !.age = Min(@ + d, SYNC_DEBOUNCE_MS + 1)]
                ELSE burst
    /\ lastApplied' = NoApplied
    /\ UNCHANGED <<cacheVars, extraVars, orphan, userId, items, initializedRef, boot, timeout, inflight, hist>>

\* The setTimeout callback runs: syncCart(payload) is sent and not awaited.
\* (Clearing a timer that has fired does nothing, so its id is forgotten.)
TimerFire(t) ==
    /\ t \in timers
    /\ t.elapsed = SYNC_DEBOUNCE_MS
    /\ Len(inflight) < MaxInflight
    /\ timers' = timers \ {t}
    /\ timeout' = IF timeout = t.id THEN 0 ELSE timeout
    /\ inflight' = Append(inflight, [stale |-> FALSE])
    /\ hist' = IF boot.pc # "done" THEN [hist EXCEPT !.early = TRUE] ELSE hist
    /\ burst' = IF burst.n > 0
                THEN [burst EXCEPT !.pushes = Min(@ + 1, 2), !.firedAt = burst.age,
                                   !.snap = t.payload]
                ELSE burst
    /\ lastApplied' = NoApplied
    /\ UNCHANGED <<cacheVars, extraVars, orphan, userId, items, initializedRef, boot>>

RemoveAt(seq, i) == [j \in 1..(Len(seq) - 1) |-> IF j < i THEN seq[j] ELSE seq[j + 1]]

\* The backend handles a debounced POST carritos/actual/; requests sent earlier
\* that are still on their way are now older than the backend's cart.
ServerApplyPush(i) ==
    /\ i \in 1..Len(inflight)
    /\ inflight' =
          LET marked == [j \in 1..Len(inflight) |->
                            IF j < i THEN [inflight[j] EXCEPT !.stale = TRUE]
                                     ELSE inflight[j]]
          IN  RemoveAt(marked, i)
    /\ lastApplied' = IF inflight[i].stale THEN "stale" ELSE "fresh"
    /\ UNCHANGED <<cacheVars, extraVars, orphan, userId, items, initializedRef, boot, timers, timeout, hist, burst>>

\* A debounced push fails: .catch logs a warning, nothing is retried.
PushFail(i) ==
    /\ i \in 1..Len(inflight)
    /\ inflight' = RemoveAt(inflight, i)
    /\ lastApplied' = NoApplied
    /\ UNCHANGED <<cacheVars, extraVars, orphan, userId, items, initializedRef, boot, timers, timeout, hist, burst>>

\* The cancelled bootstrap resumes after its await, with the backend's answer.
CancelledBootstrapResumes ==
    /\ orphan = "awaiting"
    /\ \E resp \in ServerCarts :
          IF Ignored(TRUE)
          THEN /\ initializedRef' = Finally(TRUE, FALSE, initializedRef)
               /\ UNCHANGED <<items, timers, timeout>>
          ELSE /\ items' = IF ServerHasItems(resp)
                           THEN hydrateFromServer(resp) ELSE items
               /\ initializedRef' = Finally(FALSE, FALSE, initializedRef)
               /\ LET e == PushEffect(timers, timeout, userId, items', initializedRef')
                  IN  timers' = e[1] /\ timeout' = e[2]
    /\ orphan' = NoOrphan
    /\ lastApplied' = "cancelled"
    /\ UNCHANGED <<cacheVars, extraVars, userId, boot, inflight, hist, burst>>

\* The cancelled bootstrap's request rejects: catch logs, finally is skipped.
CancelledBootstrapFails ==
    /\ orphan = "awaiting"
    /\ initializedRef' = Finally(TRUE, TRUE, initializedRef)
    /\ orphan' = NoOrphan
    /\ lastApplied' = "cancelled"
    /\ UNCHANGED <<cacheVars, extraVars, userId, items, boot, timers, timeout, inflight, hist,
                   burst>>

\* The component using useCartSync unmounts: both effects clean up, the ref
\* goes with the component.
Teardown ==
    /\ userId # NoUser
    /\ boot.pc # "unmounted"
    /\ orphan' = Cancel(boot, orphan)
    /\ boot' = Unmounted
    /\ initializedRef' = FALSE
    /\ timers' = ClearTimeout(timers, timeout)
    /\ timeout' = 0
    /\ inflight' = << >>
    /\ hist' = HistNone
    /\ burst' = NoBurst
    /\ lastApplied' = NoApplied
    /\ UNCHANGED <<cacheVars, extraVars, userId, items>>

\* The component mounts again with the user still logged in: a new ref, both
\* effects run.
Mount ==
    /\ boot.pc = "unmounted"
    /\ boot' = BootFetching
    /\ LET e == PushEffect(timers, timeout, userId, items, initializedRef)
       IN  timers' = e[1] /\ timeout' = e[2]
    /\ hist' = HistStart(TRUE)
    /\ burst' = NoBurst
    /\ lastApplied' = NoApplied
    /\ UNCHANGED <<cacheVars, extraVars, orphan, userId, items, initializedRef, inflight>>

SyncNext ==
    \/ \E u \in Users : Login(u)
    \/ \E u \in Users : SwitchUser(u)
    \/ Logout
    \/ \E p \in Products : AddItem(p)
    \/ \E p \in Products : RemoveItem(p)
    \/ \E p \in Products, q \in 0..MaxQty : UpdateQuantity(p, q)
    \/ Clear
    \/ ServerAnswerFetch
    \/ BootstrapServerWins
    \/ BootstrapPushLocal
    \/ BootstrapBothEmpty
    \/ BootstrapFetchFail
    \/ ServerApplyBootstrapPush
    \/ BootstrapAdoptPush
    \/ BootstrapPushFail
    \/ \E d \in Delays : Tick(d)
    \/ \E t \in timers : TimerFire(t)
    \/ \E i \in 1..MaxInflight : ServerApplyPush(i)
    \/ \E i \in 1..MaxInflight : PushFail(i)
    \/ CancelledBootstrapResumes
    \/ CancelledBootstrapFails
    \/ Teardown
    \/ Mount

(***************************************************************************)
(* TTL cache layer (core/offlineCache.ts)                                  *)
(***************************************************************************)
\* What storage.getItem gives for a cache key: no item (null), or a string that
\* is empty, is not JSON ("garbage"), is the JSON null, is a JSON object
\* without a timestamp, or is a stored {timestamp, data}.
Absent == [kind |-> "absent", timestamp |-> 0, data |-> "none"]
Empty == [kind |-> "empty", timestamp |-> 0, data |-> "none"]
Garbage == [kind |-> "garbage", timestamp |-> 0, data |-> "none"]
JsonNull == [kind |-> "jsonnull", timestamp |-> 0, data |-> "none"]
NoTimestamp == [kind |-> "notimestamp", timestamp |-> 0, data |-> "v1"]

\* JSON.stringify({ timestamp: Date.now(), data })
Stored_NoTimestamp(t, v) == [kind |-> "notimestamp", timestamp |-> 0, data |-> v]
Stored(t, v) == [kind |-> "entry", timestamp |-> t, data |-> v]

NullData == "null"          \* readCache's null

IndexOfKey(st, k) ==
    IF \E i \in 1..Len(st) : st[i].key = k
    THEN CHOOSE i \in 1..Len(st) : st[i].key = k
    ELSE 0

\* storage.getItem(cacheKey(key))
getItem(st, k) == IF IndexOfKey(st, k) = 0 THEN Absent ELSE st[IndexOfKey(st, k)].raw

\* storage.removeItem(cacheKey(key)): later items move one index down
removeCacheKey(st, k) == SelectSeq(st, LAMBDA e : e.key # k)

\* storage.setItem(cacheKey(key), raw): an existing key keeps its index, a new
\* key takes index pos
setItem(st, k, raw, pos) ==
    IF IndexOfKey(st, k) # 0
    THEN [st EXCEPT ![IndexOfKey(st, k)] = [key |-> k, raw |-> raw]]
    ELSE [i \in 1..(Len(st) + 1) |->
            IF i < pos THEN st[i]
            ELSE IF i = pos THEN [key |-> k, raw |-> raw]
            ELSE st[i - 1]]

\* clearExpiredCache removes an item that is empty, does not parse, has no
\* timestamp, or has timestamp + DEFAULT_TTL_MS < now
SweepRemoves(raw, t) ==
    \/ raw.kind \in {"empty", "garbage", "jsonnull", "notimestamp"}
    \/ raw.kind = "entry" /\ raw.timestamp + DEFAULT_TTL_MS < t

\* clearExpiredCache: for (let i = 0; i < storage.length; i += 1), removing
\* while iterating
\* localStorage keys of other stores (electrostore-auth, electrostore-cart)
ForeignKeys == {"electrostore-auth"}

\* key.startsWith(CACHE_PREFIX)
HasCachePrefix(k) == k \notin ForeignKeys

RECURSIVE SweepFrom(_, _, _)
SweepFrom(st, i, t) ==
    IF i > Len(st) THEN st
    ELSE IF HasCachePrefix(st[i].key) /\ SweepRemoves(st[i].raw, t)
         THEN SweepFrom(removeCacheKey(st, st[i].key), i + 1, t)
         ELSE SweepFrom(st, i + 1, t)

clearExpiredCache(st, t) == SweepFrom(st, 1, t)

\* Date.now() - stored.timestamp > ttl
Expired_AtTtl(raw, ttl, t) == t - raw.timestamp >= ttl
Expired(raw, ttl, t) == t - raw.timestamp > ttl

\* readCache(key, ttl): <<what it returns, the storage it leaves>>
readCache(st, k, ttl, t) ==
    LET raw == getItem(st, k)
    IN  IF raw.kind \in {"absent", "empty"} THEN <<NullData, st>>
        ELSE IF raw.kind \in {"garbage", "jsonnull", "notimestamp"}
             THEN <<NullData, removeCacheKey(st, k)>>
        ELSE IF Expired(raw, ttl, t) THEN <<NullData, removeCacheKey(st, k)>>
        ELSE <<raw.data, st>>

\* writeCache(key, data): setItem, or clearExpiredCache() when setItem throws
writeCache(st, k, v, t, pos, ok) ==
    IF ok THEN setItem(st, k, Stored(t, v), pos) ELSE clearExpiredCache(st, t)

\* if (!isOnline()) { const cached = fallback(); if (cached !== null) ... }
OfflineHit_Inverted(on, cached) == on /\ cached # NullData
OfflineHit(on, cached) == ~on /\ cached # NullData

\* catch (error) { if (fallbackOnError) { const cached = fallback(); ... } }
ReadsOnError_Always(fb) == TRUE
ReadsOnError(fb) == fb

NoCall == [step |-> "none", key |-> "none", ttl |-> 0, fallbackOnError |-> TRUE,
           offline |-> FALSE, at |-> 0, seen |-> Absent, after |-> Absent,
           didRead |-> FALSE, result |-> NullData, invoked |-> FALSE,
           outcome |-> "none", value |-> NullData, held |-> FALSE]
NoFresh == [data |-> NullData, at |-> 0, stored |-> FALSE]

\* A key's fetched value counts as stored while the key stays in the storage.
Keep(fr, st) ==
    [k \in CacheKeys |-> [fr[k] EXCEPT !.stored = @ /\ IndexOfKey(st, k) # 0]]

StorageInits ==
    { st \in UNION {[1..n -> [key : CacheKeys,
                              raw : {Empty, Garbage, JsonNull, NoTimestamp}]] :
                    n \in 0..1} :
        \A i, j \in 1..Len(st) : i # j => st[i].key # st[j].key }

CacheInit ==
    /\ now = 1
    /\ ticks = 0
    /\ calls = 0
    /\ online \in BOOLEAN
    /\ storage \in StorageInits
    /\ pending = {}
    /\ last = NoCall
    /\ fresh = [k \in CacheKeys |-> NoFresh]

\* isOnline()
isOnline == online

\* fetchWithCache(key, fetcher, ttl, options) up to its first suspension:
\* offline with a cached value it returns the value; otherwise it calls
\* fetcher() and awaits it.
Call(k, ttl, fb) ==
    LET r == IF ~isOnline THEN readCache(storage, k, ttl, now)
                          ELSE <<NullData, storage>>
        hit == OfflineHit(isOnline, r[1])
        call == [key |-> k, ttl |-> ttl, fallbackOnError |-> fb]
    IN  /\ ~hit => Cardinality(pending) < MaxPending /\ call \notin pending
        /\ calls < MaxCalls
        /\ calls' = calls + 1
        /\ storage' = r[2]
        /\ pending' = IF hit THEN pending ELSE pending \cup {call}
        /\ last' = [step |-> "call", key |-> k, ttl |-> ttl,
                    fallbackOnError |-> fb, offline |-> ~isOnline, at |-> now,
                    seen |-> getItem(storage, k), after |-> getItem(r[2], k),
                    didRead |-> ~isOnline, result |-> r[1],
                    invoked |-> ~hit,
                    outcome |-> IF hit THEN "data" ELSE "pending",
                    value |-> IF hit THEN r[1] ELSE NullData,
                    held |-> fresh[k].stored]
        /\ fresh' = Keep(fresh, r[2])
        /\ UNCHANGED <<syncVars, extraVars, now, ticks, online>>

\* fetcher() resolves with v: writeCache(key, data); return data.
FetcherResolves(c, v, pos, ok) ==
    LET st == writeCache(storage, c.key, v, now, pos, ok)
    IN  /\ c \in pending
        /\ pos \in 1..(Len(storage) + 1)
        /\ IndexOfKey(storage, c.key) # 0 \/ ~ok => pos = 1
        /\ pending' = pending \ {c}
        /\ storage' = st
        /\ last' = [step |-> "resolve", key |-> c.key, ttl |-> c.ttl,
                    fallbackOnError |-> c.fallbackOnError, offline |-> FALSE,
                    at |-> now, seen |-> getItem(storage, c.key),
                    after |-> getItem(st, c.key), didRead |-> FALSE,
                    result |-> NullData, invoked |-> TRUE,
                    outcome |-> "data", value |-> v, held |-> FALSE]
        /\ fresh' = Keep([fresh EXCEPT ![c.key] =
                             [data |-> v, at |-> now, stored |-> ok]], st)
        /\ UNCHANGED <<syncVars, extraVars, now, calls, ticks, online>>

\* fetcher() rejects: with fallbackOnError a cached value is returned if there
\* is one; otherwise the error is thrown.
FetcherRejects(c) ==
    LET reads == ReadsOnError(c.fallbackOnError)
        r == IF reads THEN readCache(storage, c.key, c.ttl, now)
                      ELSE <<NullData, storage>>
    IN  /\ c \in pending
        /\ pending' = pending \ {c}
        /\ storage' = r[2]
        /\ last' = [step |-> "reject", key |-> c.key, ttl |-> c.ttl,
                    fallbackOnError |-> c.fallbackOnError, offline |-> FALSE,
                    at |-> now, seen |-> getItem(storage, c.key),
                    after |-> getItem(r[2], c.key), didRead |-> reads,
                    result |-> r[1], invoked |-> TRUE,
                    outcome |-> IF r[1] # NullData THEN "data" ELSE "error",
                    value |-> r[1], held |-> fresh[c.key].stored]
        /\ fresh' = Keep(fresh, r[2])
        /\ UNCHANGED <<syncVars, extraVars, now, calls, ticks, online>>

\* invalidateCacheKeys(...keys), one key at a time
Invalidate(k) ==
    /\ storage' = removeCacheKey(storage, k)
    /\ fresh' = [fresh EXCEPT ![k] = NoFresh]
    /\ last' = NoCall
    /\ UNCHANGED <<syncVars, extraVars, now, calls, ticks, online, pending>>

\* The clock advances.
Advance(d) ==
    /\ ticks < MaxTicks
    /\ ticks' = ticks + 1
    /\ now' = now + d
    /\ last' = NoCall
    /\ UNCHANGED <<syncVars, extraVars, calls, online, storage, pending, fresh>>

\* The browser goes offline or online.
Connectivity ==
    /\ online' = ~online
    /\ last' = NoCall
    /\ UNCHANGED <<syncVars, extraVars, now, calls, ticks, storage, pending, fresh>>

CacheNext ==
    \/ \E k \in CacheKeys, ttl \in Ttls, fb \in BOOLEAN : Call(k, ttl, fb)
    \/ \E c \in pending, v \in Values, pos \in 1..Cardinality(CacheKeys),
          ok \in BOOLEAN : FetcherResolves(c, v, pos, ok)
    \/ \E c \in pending : FetcherRejects(c)
    \/ \E k \in CacheKeys : Invalidate(k)
    \/ \E d \in TimeSteps : Advance(d)
    \/ Connectivity

\* clearExpiredCache() on its own: the localStorage it may find, at SweepTime.
SweepTime == 2 * DEFAULT_TTL_MS + 2
SweepKeys == CacheKeys \cup {"productos-low-stock"} \cup ForeignKeys
SweepRaws ==
    {Empty, Garbage, JsonNull, NoTimestamp, Stored(1, "v1"),
     Stored(SweepTime - DEFAULT_TTL_MS, "v1"), Stored(SweepTime, "v2")}

SweepStorages ==
    { st \in UNION {[1..n -> [key : SweepKeys, raw : SweepRaws]] : n \in 0..MaxStored} :
        /\ \A i, j \in 1..Len(st) : i # j => st[i].key # st[j].key
        /\ \A i \in 1..Len(st) : st[i].key \in ForeignKeys => st[i].raw = Garbage }

SweepInit ==
    /\ now = SweepTime
    /\ ticks = 0
    /\ calls = 0
    /\ online = TRUE
    /\ storage \in SweepStorages
    /\ pending = {}
    /\ last = NoCall
    /\ fresh = [k \in CacheKeys |-> NoFresh]

\* clearExpiredCache()
ClearExpiredCache ==
    /\ last = NoCall
    /\ storage' = clearExpiredCache(storage, now)
    /\ last' = [NoCall EXCEPT !.step = "sweep"]
    /\ UNCHANGED <<syncVars, extraVars, now, calls, ticks, online, pending, fresh>>

SweepNext == ClearExpiredCache

\* The cache layer at rest, for the cart synchronisation process.
CacheIdle ==
    /\ now = 1
    /\ ticks = 0
    /\ calls = 0
    /\ online = TRUE
    /\ storage = << >>
    /\ pending = {}
    /\ last = NoCall
    /\ fresh = [k \in CacheKeys |-> NoFresh]

\* The cart synchronisation process at rest, for the cache layer.
SyncIdle ==
    /\ userId = NoUser
    /\ items = << >>
    /\ initializedRef = FALSE
    /\ boot = NoBoot
    /\ timers = {}
    /\ timeout = 0
    /\ inflight = << >>
    /\ orphan = NoOrphan
    /\ hist = HistNone
    /\ lastApplied = NoApplied
    /\ burst = NoBurst

(***************************************************************************)
(* The cart store on its own: no user, so the push effect never schedules  *)
(***************************************************************************)
NoOp == [name |-> "none", product |-> 0, quantity |-> 0, before |-> << >>,
         streak |-> 0]

\* Quantities updateQuantity is called with.
Quantities == (0 - 1)..MaxQty

\* loadStoredItems: the items persisted by an earlier visit (distinct products,
\* quantities from 1).
StoredCarts ==
    { << >> } \cup
    { <<CartItem(p, q)>> : p \in Products, q \in 1..MaxQty } \cup
    { c \in { <<CartItem(p1, q1), CartItem(p2, q2)>> :
                p1 \in Products, p2 \in Products, q1 \in 1..MaxQty, q2 \in 1..MaxQty } :
        c[1].product # c[2].product }

\* The sync hook at rest around a cart that may hold items.
SyncRest ==
    /\ userId = NoUser
    /\ initializedRef = FALSE
    /\ boot = NoBoot
    /\ timers = {}
    /\ timeout = 0
    /\ inflight = << >>
    /\ orphan = NoOrphan
    /\ hist = HistNone
    /\ lastApplied = NoApplied
    /\ burst = NoBurst

syncRestVars == <<userId, initializedRef, boot, timers, timeout, inflight, orphan,
                  hist, lastApplied, burst>>

CartIdle == op = NoOp

\* useCartStore.getState().addItem(product)
StoreAddItem(p) ==
    /\ \A i \in 1..Len(items) : items[i].product = p => items[i].quantity < MaxQty
    /\ items' = addItem(items, p)
    /\ op' = [name |-> "add", product |-> p, quantity |-> 1, before |-> items,
              streak |-> IF ~HasProduct(items, p) THEN 1
                         ELSE IF op.name = "add" /\ op.product = p /\ op.streak > 0
                              THEN op.streak + 1
                              ELSE 0]
    /\ UNCHANGED <<syncRestVars, cacheVars, sessionVars, commandVars, adminVars>>

\* useCartStore.getState().removeItem(productId)
StoreRemoveItem(p) ==
    /\ items' = removeItem(items, p)
    /\ op' = [NoOp EXCEPT !.name = "remove", !.product = p, !.before = items]
    /\ UNCHANGED <<syncRestVars, cacheVars, sessionVars, commandVars, adminVars>>

\* useCartStore.getState().updateQuantity(productId, quantity)
StoreUpdateQuantity(p, q) ==
    /\ items' = updateQuantity(items, p, q)
    /\ op' = [NoOp EXCEPT !.name = "update", !.product = p, !.quantity = q,
                          !.before = items]
    /\ UNCHANGED <<syncRestVars, cacheVars, sessionVars, commandVars, adminVars>>

\* useCartStore.getState().clear()
StoreClear ==
    /\ items' = clear(items)
    /\ op' = [NoOp EXCEPT !.name = "clear", !.before = items]
    /\ UNCHANGED <<syncRestVars, cacheVars, sessionVars, commandVars, adminVars>>

CartNext ==
    \/ \E p \in Products : StoreAddItem(p)
    \/ \E p \in Products : StoreRemoveItem(p)
    \/ \E p \in Products, q \in Quantities : StoreUpdateQuantity(p, q)
    \/ StoreClear

(***************************************************************************)
(* Session store (core/store.ts) and revalidation effect (main.tsx)        *)
(***************************************************************************)
Identities == {"ana", "luis"}    \* AppUser objects
Tokens == {"t1", "t2"}           \* tokens the backend issues
NoIdentity == "none"             \* user: null
NoToken == "none"                \* token: null, no Authorization header
WhoAmIKey == "usuario-actual"

\* setApiAuthToken: the Authorization header it leaves
setApiAuthToken(t) == IF t # NoToken THEN t ELSE NoToken

\* Mutant of setSession: the token is stored but not installed on the client.
setSession_NoBearer(u, t) == [user |-> u, token |-> t, bearer |-> bearer]

\* setSession: set({ user, token }); setApiAuthToken(token)
setSession(u, t) == [user |-> u, token |-> t, bearer |-> setApiAuthToken(t)]

\* clearSession: set({ user: null, token: null }); setApiAuthToken(null)
clearSession ==
    [user |-> NoIdentity, token |-> NoToken, bearer |-> setApiAuthToken(NoToken)]

\* persist + onRehydrateStorage in a new process (no Authorization header yet)
rehydrate(p) ==
    [user |-> p.user, token |-> p.token,
     bearer |-> IF p.token # NoToken THEN setApiAuthToken(p.token) ELSE NoToken]

\* fetchCurrentUser: cachedGet(..., { fallbackOnError: false })
WhoAmIFallback_Default == TRUE
WhoAmIFallback == FALSE

NoSess == [step |-> "none", token |-> NoToken, active |-> FALSE, denied |-> FALSE,
           cached |-> NoIdentity]

SessionIdle ==
    /\ user = NoIdentity
    /\ token = NoToken
    /\ bearer = NoToken
    /\ persisted = [user |-> NoIdentity, token |-> NoToken]
    /\ effectToken = NoToken
    /\ revals = {}
    /\ issued = [t \in Tokens |-> NoIdentity]
    /\ revoked = {}
    /\ sess = NoSess

\* The store takes the session st and persists it.
Becomes(st) ==
    /\ user' = st.user
    /\ token' = st.token
    /\ bearer' = st.bearer
    /\ persisted' = [user |-> st.user, token |-> st.token]

restOfSession ==
    <<syncVars, cartVars, commandVars, adminVars, now, ticks, calls, pending, last, fresh>>

\* A login or registration succeeded: the backend issued token t to u and the
\* page calls setSession(u, t).
SetSession(u, t) ==
    /\ issued[t] = NoIdentity
    /\ issued' = [issued EXCEPT ![t] = u]
    /\ Becomes(setSession(u, t))
    /\ sess' = [NoSess EXCEPT !.step = "setSession", !.token = t]
    /\ UNCHANGED <<restOfSession, online, storage, effectToken, revals, revoked>>

\* Navbar handleLogout: clearSession()
ClearSession ==
    /\ user # NoIdentity
    /\ Becomes(clearSession)
    /\ sess' = [NoSess EXCEPT !.step = "clearSession"]
    /\ UNCHANGED <<restOfSession, online, storage, effectToken, revals, issued, revoked>>

\* The backend stops accepting a token (logout registered, expiry).
Revoke(t) ==
    /\ issued[t] # NoIdentity
    /\ t \notin revoked
    /\ revoked' = revoked \cup {t}
    /\ sess' = NoSess
    /\ UNCHANGED <<restOfSession, online, storage, user, token, bearer, persisted,
                   effectToken, revals, issued>>

\* The page is loaded anew: the store rehydrates from the persisted session,
\* the calls of the old page are gone.
Rehydrate ==
    /\ LET st == rehydrate(persisted)
       IN  user' = st.user /\ token' = st.token /\ bearer' = st.bearer
    /\ effectToken' = NoToken
    /\ revals' = {}
    /\ sess' = [NoSess EXCEPT !.step = "rehydrate", !.token = persisted.token]
    /\ UNCHANGED <<restOfSession, online, storage, persisted, issued, revoked>>

\* The revalidation effect (deps [token, ...]) runs for a new token: the
\* previous run's cleanup sets its isActive to false; with a token it calls
\* fetchCurrentUser(), i.e. fetchWithCache up to its first suspension.
RevalidationEffect ==
    LET cleaned == {[r EXCEPT !.active = FALSE] : r \in revals}
        r == IF ~isOnline THEN readCache(storage, WhoAmIKey, WHOAMI_TTL_MS, now)
                          ELSE <<NullData, storage>>
        hit == OfflineHit(isOnline, r[1])
        call == [token |-> token, bearer |-> bearer, active |-> TRUE,
                 phase |-> IF hit THEN "cached" ELSE "request",
                 data |-> IF hit THEN r[1] ELSE NoIdentity]
    IN  /\ effectToken # token
        /\ effectToken' = token
        /\ IF token = NoToken
           THEN revals' = cleaned /\ storage' = storage
           ELSE /\ Cardinality(cleaned) < MaxRevals
                /\ revals' = cleaned \cup {call}
                /\ storage' = r[2]
        /\ sess' = NoSess
        /\ UNCHANGED <<restOfSession, online, user, token, bearer, persisted,
                       issued, revoked>>

\* A who-am-I call that applies its result whatever became of its effect run.
IsActive_Always(r) == TRUE

\* if (isActive) ...: the flag of the effect run that made the call
IsActive(r) == r.active

\* React runs the effects of a store update in the task that made the update
\* (createRoot, a store read through useSyncExternalStore), so a promise
\* callback of a later task finds the effect of the current token already run.
EffectsFlushed == effectToken = token

\* fetchWithCache returned the cached identity: .then(user => isActive && setSession(user, token))
WhoAmIFromCache(r) ==
    /\ EffectsFlushed
    /\ r \in revals
    /\ r.phase = "cached"
    /\ revals' = revals \ {r}
    /\ IF IsActive(r) THEN Becomes(setSession(r.data, r.token))
                   ELSE UNCHANGED <<user, token, bearer, persisted>>
    /\ sess' = [step |-> "cached", token |-> r.token, active |-> r.active,
                denied |-> FALSE, cached |-> r.data]
    /\ UNCHANGED <<restOfSession, online, storage, effectToken, issued, revoked>>

\* GET auth/me/ answered with the user of the request's bearer token:
\* writeCache, then .then(user => isActive && setSession(user, token))
WhoAmIResolves(r, ok) ==
    /\ EffectsFlushed
    /\ r \in revals
    /\ r.phase = "request"
    /\ r.bearer # NoToken
    /\ r.bearer \notin revoked
    /\ revals' = revals \ {r}
    /\ storage' = writeCache(storage, WhoAmIKey, issued[r.bearer], now, 1, ok)
    /\ IF IsActive(r) THEN Becomes(setSession(issued[r.bearer], r.token))
                   ELSE UNCHANGED <<user, token, bearer, persisted>>
    /\ sess' = [step |-> "resolved", token |-> r.token, active |-> r.active,
                denied |-> FALSE, cached |-> NoIdentity]
    /\ UNCHANGED <<restOfSession, online, effectToken, issued, revoked>>

\* GET auth/me/ failed (denied: the backend does not accept the bearer token;
\* otherwise the request did not get through): fetchWithCache's catch, then
\* .catch(() => isActive && clearSession())
WhoAmIRejects(r, denied) ==
    LET reads == ReadsOnError(WhoAmIFallback)
        c == IF reads THEN readCache(storage, WhoAmIKey, WHOAMI_TTL_MS, now)
                      ELSE <<NullData, storage>>
        masked == c[1] # NullData
    IN  /\ EffectsFlushed
        /\ r \in revals
        /\ r.phase = "request"
        /\ denied <=> (r.bearer = NoToken \/ r.bearer \in revoked)
        /\ revals' = revals \ {r}
        /\ storage' = c[2]
        /\ IF ~IsActive(r) THEN UNCHANGED <<user, token, bearer, persisted>>
           ELSE IF masked THEN Becomes(setSession(c[1], r.token))
           ELSE Becomes(clearSession)
        /\ sess' = [step |-> "rejected", token |-> r.token, active |-> r.active,
                    denied |-> denied, cached |-> c[1]]
        /\ UNCHANGED <<restOfSession, online, effectToken, issued, revoked>>

SessionNext ==
    \/ \E u \in Identities, t \in Tokens : SetSession(u, t)
    \/ ClearSession
    \/ \E t \in Tokens : Revoke(t)
    \/ Rehydrate
    \/ RevalidationEffect
    \/ \E r \in revals : WhoAmIFromCache(r)
    \/ \E r \in revals, ok \in BOOLEAN : WhoAmIResolves(r, ok)
    \/ \E r \in revals, denied \in BOOLEAN : WhoAmIRejects(r, denied)
    \/ \E d \in TimeSteps : Advance(d)
    \/ Connectivity

(***************************************************************************)
(* Command interpreter (pages/Cart.tsx)                                    *)
(***************************************************************************)
\* An instruction is a sequence of words; "#" stands for punctuation.
AddWords == {"agregar", "anadir"}
RemoveWords == {"quitar"}
ClearWords == {"vaciar"}
PayWords == {"pagar"}
DigitWords == {"0", "2"}
NameWords == {"laptop", "pro"}
Punctuation == {"#"}
\* The instructions given: an add or remove keyword or none, then the rest;
\* and the instructions that start with another keyword.
Heads == {<< >>, <<"agregar">>, <<"quitar">>}
Tails ==
    {<< >>, <<"laptop">>, <<"laptop", "pro">>, <<"2">>, <<"#", "2">>,
     <<"laptop", "2">>, <<"laptop", "0">>, <<"vaciar">>}
Instructions ==
    {h \o t : h \in Heads, t \in Tails}
        \cup {<<"vaciar", "#">>, <<"pagar">>, <<"pagar", "vaciar">>,
              <<"quitar", "agregar", "laptop">>}

\* Number(digits)
Number(w) == IF w = "2" THEN 2 ELSE 0

\* normalizeText: punctuation becomes white space, white space is collapsed
normalizeText(text) == SelectSeq(text, LAMBDA w : w \notin Punctuation)

NotLoaded == "undefined"

\* fetchProducts results: product ids with their names
Catalogs ==
    { << >>,
      <<[id |-> 1, nombre |-> <<"laptop">>]>>,
      <<[id |-> 1, nombre |-> <<"laptop", "pro">>],
        [id |-> 2, nombre |-> <<"laptop", "#", "2">>]>>,
      <<[id |-> 1, nombre |-> <<"laptop">>],
        [id |-> 2, nombre |-> <<"laptop", "pro">>]>> }

\* searchIndex: (catalog ?? []).map(product => ({ product, normalized }))
searchIndex(cat) ==
    IF cat = NotLoaded THEN << >>
    ELSE [i \in 1..Len(cat) |->
            [product |-> cat[i].id, normalized |-> normalizeText(cat[i].nombre)]]

Includes(name, w) == \E i \in 1..Len(name) : name[i] = w

NoProduct == 0

\* Mutant of findProducts: a product matches when some word of the query is in its name.
findProducts_AnyWord(idx, query) ==
    LET q == normalizeText(query)
        hit == SelectSeq(idx, LAMBDA e : \E i \in 1..Len(q) : Includes(e.normalized, q[i]))
    IN  IF q = << >> THEN [exact |-> NoProduct, matches |-> << >>]
        ELSE [exact |-> IF \E i \in 1..Len(idx) : idx[i].normalized = q
                        THEN idx[CHOOSE i \in 1..Len(idx) :
                                    /\ idx[i].normalized = q
                                    /\ \A j \in (i + 1)..Len(idx) : idx[j].normalized # q].product
                        ELSE NoProduct,
              matches |-> [i \in 1..Len(hit) |-> hit[i].product]]

\* findProducts: exact is the last product whose normalized name is the
\* normalized query, matches are the products whose name has every word of it
findProducts(idx, query) ==
    LET q == normalizeText(query)
        hit == SelectSeq(idx, LAMBDA e : \A i \in 1..Len(q) : Includes(e.normalized, q[i]))
    IN  IF q = << >> THEN [exact |-> NoProduct, matches |-> << >>]
        ELSE [exact |-> IF \E i \in 1..Len(idx) : idx[i].normalized = q
                        THEN idx[CHOOSE i \in 1..Len(idx) :
                                    /\ idx[i].normalized = q
                                    /\ \A j \in (i + 1)..Len(idx) : idx[j].normalized # q].product
                        ELSE NoProduct,
              matches |-> [i \in 1..Len(hit) |-> hit[i].product]]

\* lower.includes(keyword)
HasWord(instruction, ws) == \E i \in 1..Len(instruction) : instruction[i] \in ws

\* stripAction: the add keywords removed, trimmed
stripAction(instruction) == SelectSeq(instruction, LAMBDA w : w \notin AddWords)

\* baseText.match(/(\d+)\s*$/)
HasTrailingNumber(text) == Len(text) > 0 /\ text[Len(text)] \in DigitWords

\* attempts: the search texts tried in order, each with its quantity
attempts(baseText) ==
    IF HasTrailingNumber(baseText)
    THEN LET quantityValue == Max(1, Number(baseText[Len(baseText)]))
             withoutNumber == SubSeq(baseText, 1, Len(baseText) - 1)
         IN  IF withoutNumber # << >>
             THEN <<[text |-> withoutNumber, quantity |-> quantityValue],
                    [text |-> baseText, quantity |-> 1]>>
             ELSE <<[text |-> baseText, quantity |-> quantityValue]>>
    ELSE <<[text |-> baseText, quantity |-> 1]>>

\* for (const attempt of attempts): the first attempt with matches, 0 if none
FirstMatching(idx, atts) ==
    IF \E i \in 1..Len(atts) : findProducts(idx, atts[i].text).matches # << >>
    THEN CHOOSE i \in 1..Len(atts) :
            /\ findProducts(idx, atts[i].text).matches # << >>
            /\ \A j \in 1..(i - 1) : findProducts(idx, atts[j].text).matches = << >>
    ELSE 0

\* exact ?? (candidates.length === 1 ? candidates[0] : null)
Selected(found) ==
    IF found.exact # NoProduct THEN found.exact
    ELSE IF Len(found.matches) = 1 THEN found.matches[1]
    ELSE NoProduct

NoMode == "null"

\* applyAddToCart: `existing` is looked up in the items of the render that
\* made the callback (snapshot); addItem and updateQuantity act on the store.
applyAddToCart(snapshot, its, p, quantity) ==
    IF HasProduct(snapshot, p)
    THEN LET existing == snapshot[CHOOSE i \in 1..Len(snapshot) :
                                     /\ snapshot[i].product = p
                                     /\ \A j \in 1..(i - 1) : snapshot[j].product # p]
         IN  updateQuantity(its, p, existing.quantity + quantity)
    ELSE IF quantity > 1
         THEN updateQuantity(addItem(its, p), p, quantity)
         ELSE addItem(its, p)

\* !catalog?.length
CatalogMissing(cat) == cat = NotLoaded \/ cat = << >>

\* The page state a command acts on and leaves (intent: the branch it took).
View(its, sug, mode, pend) ==
    [items |-> its, suggestions |-> sug, mode |-> mode, pending |-> pend,
     feedback |-> "none", intent |-> "none"]

\* Mutant of Intent: the clear keywords are looked for first.
Intent_ClearFirst(instruction) ==
    IF HasWord(instruction, ClearWords) THEN "clear"
    ELSE IF HasWord(instruction, AddWords) THEN "add"
    ELSE IF HasWord(instruction, RemoveWords) THEN "remove"
    ELSE IF HasWord(instruction, PayWords) THEN "checkout"
    ELSE "unknown"

\* the chain of if (lower.includes(...)) { ...; return; }
Intent(instruction) ==
    IF HasWord(instruction, AddWords) THEN "add"
    ELSE IF HasWord(instruction, RemoveWords) THEN "remove"
    ELSE IF HasWord(instruction, ClearWords) THEN "clear"
    ELSE IF HasWord(instruction, PayWords) THEN "checkout"
    ELSE "unknown"

\* interpretCommand(instruction): cat and snapshot are the catalog and the
\* items of the render that made the callback, v the page state it acts on.
interpretCommand(instruction, cat, snapshot, v) ==
    LET idx == searchIndex(cat)
        w == [v EXCEPT !.suggestions = << >>, !.mode = NoMode,
                       !.intent = Intent(instruction)]
        baseText == stripAction(instruction)
        atts == attempts(baseText)
        k == FirstMatching(idx, atts)
        found == findProducts(idx, atts[k].text)
        selectedProduct == Selected(found)
        productNameRaw == SelectSeq(instruction, LAMBDA x : x \notin RemoveWords)
        toRemove == findProducts(idx, productNameRaw)
        product == Selected(toRemove)
    IN  IF instruction = << >> THEN v
        ELSE IF CatalogMissing(cat) THEN [v EXCEPT !.feedback = "loading"]
        ELSE IF Intent(instruction) = "add"
        THEN IF baseText = << >> THEN [w EXCEPT !.feedback = "needName"]
             ELSE IF k = 0 THEN [w EXCEPT !.feedback = "notFound"]
             ELSE IF selectedProduct = NoProduct
             THEN [w EXCEPT !.pending = atts[k].quantity, !.mode = "add",
                            !.suggestions = found.matches, !.feedback = "choose"]
             ELSE [w EXCEPT !.items = applyAddToCart(snapshot, w.items, selectedProduct,
                                                     atts[k].quantity),
                            !.pending = 1, !.feedback = "added"]
        ELSE IF Intent(instruction) = "remove"
        THEN IF productNameRaw = << >> THEN [w EXCEPT !.feedback = "needName"]
             ELSE IF toRemove.matches = << >> THEN [w EXCEPT !.feedback = "notFound"]
             ELSE IF product = NoProduct
             THEN [w EXCEPT !.mode = "remove", !.suggestions = toRemove.matches,
                            !.feedback = "choose"]
             ELSE [w EXCEPT !.items = removeItem(w.items, product), !.pending = 1,
                            !.feedback = "removed"]
        ELSE IF Intent(instruction) = "clear"
        THEN [w EXCEPT !.items = clear(w.items), !.pending = 1, !.feedback = "cleared"]
        ELSE IF Intent(instruction) = "checkout"
        THEN [w EXCEPT !.pending = 1, !.feedback = "paying"]
        ELSE [w EXCEPT !.feedback = "unknown"]

NoMic == [on |-> FALSE, items |-> << >>, catalog |-> NotLoaded]

NoCmd == [step |-> "none", instruction |-> << >>, before |-> << >>,
          catalog |-> NotLoaded, feedback |-> "none", intent |-> "none"]

\* loadStoredItems: the carts a visit starts the page with
CommandCarts == {<< >>, <<CartItem(1, 1)>>, <<CartItem(2, 1), CartItem(1, 2)>>}

CommandIdle ==
    /\ catalog = NotLoaded
    /\ commandSuggestions = << >>
    /\ suggestionMode = NoMode
    /\ pendingQuantity = 1
    /\ mic = NoMic
    /\ cmd = NoCmd

WithinLineQty(its) == \A i \in 1..Len(its) : its[i].quantity <= MaxLineQty

\* the page state after a command, and the command remembered (cat is the
\* catalog its callback was made with)
Leaves(step, instruction, cat, r) ==
    /\ WithinLineQty(r.items)
    /\ items' = r.items
    /\ commandSuggestions' = r.suggestions
    /\ suggestionMode' = r.mode
    /\ pendingQuantity' = r.pending
    /\ cmd' = [step |-> step, instruction |-> instruction, before |-> items,
               catalog |-> cat, feedback |-> r.feedback, intent |-> r.intent]

restOfCommand == <<syncRestVars, cacheVars, cartVars, sessionVars, adminVars>>

\* useQuery(["productos"], fetchProducts) delivers the catalog
CatalogLoads(c) ==
    /\ catalog = NotLoaded
    /\ catalog' = c
    /\ cmd' = NoCmd
    /\ UNCHANGED <<items, commandSuggestions, suggestionMode, pendingQuantity, mic,
                   restOfCommand>>

\* the "Ejecutar" button: interpretCommand(commandInput) of the current render
TextCommand(instruction) ==
    /\ instruction # << >>
    /\ Leaves("text", instruction, catalog,
              interpretCommand(instruction, catalog, items,
                               View(items, commandSuggestions, suggestionMode,
                                    pendingQuantity)))
    /\ UNCHANGED <<catalog, mic, restOfCommand>>

\* startListening: recognition.onresult keeps the onResult of this render
StartListening ==
    /\ ~mic.on
    /\ mic' = [on |-> TRUE, items |-> items, catalog |-> catalog]
    /\ cmd' = NoCmd
    /\ UNCHANGED <<items, catalog, commandSuggestions, suggestionMode, pendingQuantity,
                   restOfCommand>>

\* stopListening, recognition.onerror, recognition.onend without a result
StopListening ==
    /\ mic.on
    /\ mic' = NoMic
    /\ cmd' = NoCmd
    /\ UNCHANGED <<items, catalog, commandSuggestions, suggestionMode, pendingQuantity,
                   restOfCommand>>

\* recognition.onresult: onResult(transcript) -> interpretCommand(text, true)
VoiceResult(instruction) ==
    /\ mic.on
    /\ instruction # << >>
    /\ Leaves("voice", instruction, mic.catalog,
              interpretCommand(instruction, mic.catalog, mic.items,
                               View(items, commandSuggestions, suggestionMode,
                                    pendingQuantity)))
    /\ mic' = NoMic
    /\ UNCHANGED <<catalog, restOfCommand>>

\* handleSuggestionSelection(product)
SelectSuggestion(p) ==
    /\ \E i \in 1..Len(commandSuggestions) : commandSuggestions[i] = p
    /\ suggestionMode \in {"add", "remove"}
    /\ Leaves("select", << >>, catalog,
              [View(IF suggestionMode = "add"
                    THEN applyAddToCart(items, items, p, pendingQuantity)
                    ELSE removeItem(items, p),
                    << >>, NoMode, 1)
               EXCEPT !.feedback = IF suggestionMode = "add" THEN "added" ELSE "removed"])
    /\ UNCHANGED <<catalog, mic, restOfCommand>>

CommandNext ==
    \/ \E c \in Catalogs : CatalogLoads(c)
    \/ \E instruction \in Instructions : TextCommand(instruction)
    \/ StartListening
    \/ StopListening
    \/ \E instruction \in Instructions : VoiceResult(instruction)
    \/ \E p \in Products : SelectSuggestion(p)

(***************************************************************************)
(* Admin pages: mutations and the cached read lists                        *)
(***************************************************************************)
\* keys of the read lists: fetchProducts, fetchLowStockProducts,
\* fetchCategories, fetchDiscounts
AdminKeys == {"productos", "productos-low-stock", "categorias", "descuentos"}

Entities == {"producto", "categoria", "descuento"}

\* the keys onSuccess hands to invalidateCacheKeys: clearProductCaches,
\* refreshCategoryCaches; the discount mutations call queryClient only
InvalidatedKeys(entity) ==
    IF entity = "producto" THEN {"productos", "productos-low-stock"}
    ELSE IF entity = "categoria" THEN {"categorias"}
    ELSE {}

\* keys.forEach(removeCacheKey)
invalidateCacheKeys(st, keys) == SelectSeq(st, LAMBDA e : e.key \notin keys)

\* the read lists a mutation of the entity changes on the backend
ChangedLists(entity) ==
    IF entity = "producto" THEN {"productos", "productos-low-stock"}
    ELSE IF entity = "categoria" THEN {"categorias"}
    ELSE {"descuentos"}

AdminIdle == outdated = {}

restOfAdmin == <<syncVars, cartVars, sessionVars, commandVars, now, ticks, calls, pending, fresh>>

\* fetchWithCache(key, fetcher) online, the backend answers: writeCache
AdminFetch(k) ==
    /\ isOnline
    /\ storage' = writeCache(storage, k, "v1", now, Len(storage) + 1, TRUE)
    /\ outdated' = outdated \ {k}
    /\ last' = [NoCall EXCEPT !.step = "fetched", !.key = k, !.value = "v1"]
    /\ UNCHANGED <<online, restOfAdmin>>

\* fetchWithCache(key, fetcher) answered by readCache: offline, or online
\* when the fetcher rejects (fallbackOnError)
AdminCacheRead(k) ==
    LET r == readCache(storage, k, DEFAULT_TTL_MS, now)
    IN  /\ storage' = r[2]
        /\ last' = [NoCall EXCEPT !.step = "cacheread", !.key = k, !.offline = ~isOnline,
                                  !.didRead = TRUE, !.result = r[1],
                                  !.held = k \in outdated]
        /\ UNCHANGED <<online, outdated, restOfAdmin>>

\* an admin create, update or delete succeeds: onSuccess
AdminMutation(entity) ==
    /\ isOnline
    /\ storage' = invalidateCacheKeys(storage, InvalidatedKeys(entity))
    /\ outdated' = (outdated \cup {k \in ChangedLists(entity) : IndexOfKey(storage, k) # 0})
                     \ {k \in AdminKeys : IndexOfKey(storage', k) = 0}
    /\ last' = [NoCall EXCEPT !.step = "mutation", !.key = entity]
    /\ UNCHANGED <<online, restOfAdmin>>

\* navigator.onLine changes
AdminConnectivity ==
    /\ online' = ~online
    /\ last' = NoCall
    /\ UNCHANGED <<storage, outdated, restOfAdmin>>

AdminNext ==
    \/ \E k \in AdminKeys : AdminFetch(k)
    \/ \E k \in AdminKeys : AdminCacheRead(k)
    \/ \E entity \in Entities : AdminMutation(entity)
    \/ AdminConnectivity

Init == SyncInit /\ CacheIdle /\ CartIdle /\ SessionIdle /\ CommandIdle /\ AdminIdle
Next == SyncNext
Spec == Init /\ [][Next]_vars

\* The cart synchronisation process when timers fire: time passes while a timer
\* is pending, a pending timer gets to reach its delay, a timer that is due gets
\* to run its callback, and every request sent is answered or fails.
TimerComesDue ==
    \E d \in Delays : Tick(d) /\ \E t \in timers' : t.elapsed = SYNC_DEBOUNCE_MS

TimersFire ==
    /\ WF_vars(\E d \in Delays : Tick(d))
    /\ SF_vars(TimerComesDue)
    /\ SF_vars(\E t \in timers : TimerFire(t))
    /\ WF_vars(\E i \in 1..MaxInflight : ServerApplyPush(i) \/ PushFail(i))

LiveSpec == Init /\ [][Next]_vars /\ TimersFire

CacheStart == CacheInit /\ SyncIdle /\ CartIdle /\ SessionIdle /\ CommandIdle /\ AdminIdle
CacheSpec == CacheStart /\ [][CacheNext]_vars

CartStart ==
    items \in StoredCarts /\ SyncRest /\ CacheIdle /\ CartIdle /\ SessionIdle /\ CommandIdle /\ AdminIdle
CartSpec == CartStart /\ [][CartNext]_vars

SessionStart == SyncIdle /\ CacheIdle /\ CartIdle /\ SessionIdle /\ CommandIdle /\ AdminIdle
SessionSpec == SessionStart /\ [][SessionNext]_vars

CommandStart ==
    items \in CommandCarts /\ SyncRest /\ CacheIdle /\ CartIdle /\ SessionIdle /\ CommandIdle /\ AdminIdle
CommandSpec == CommandStart /\ [][CommandNext]_vars

SweepStart == SweepInit /\ SyncIdle /\ CartIdle /\ SessionIdle /\ CommandIdle /\ AdminIdle
SweepSpec == SweepStart /\ [][SweepNext]_vars

AdminStart == SyncIdle /\ CacheIdle /\ CartIdle /\ SessionIdle /\ CommandIdle /\ AdminIdle
AdminSpec == AdminStart /\ [][AdminNext]_vars

(***************************************************************************)
(* Claims about the cart synchronisation process                           *)
(***************************************************************************)
SameAsDetalles(its, detalles) ==
    /\ Len(its) = Len(detalles)
    /\ \A i \in 1..Len(its) :
          /\ its[i].product = detalles[i].producto
          /\ its[i].quantity = detalles[i].cantidad

SameAsPayload(its, payload) ==
    /\ Len(its) = Len(payload)
    /\ \A i \in 1..Len(its) :
          /\ its[i].product = payload[i].productId
          /\ its[i].quantity = payload[i].quantity

LocalWinsOnBootstrap ==
    /\ boot.pc \in {"pushing", "pushed"} \/ hist.path = "local" =>
          /\ Len(hist.fetched) = 0
          /\ Len(hist.local) > 0
          /\ hist.calls = 1
          /\ SameAsPayload(hist.local, hist.sent)
    /\ boot.pc \in {"pushing", "pushed"} => boot.payload = hist.sent
    /\ hist.path = "local" => SameAsDetalles(items, hist.resp)
    /\ hist.path = "empty" =>
          /\ Len(hist.fetched) = 0
          /\ Len(hist.local) = 0
          /\ hist.calls = 0
          /\ items = << >>

\* C2 witness: a local cart of 2 lines (one with quantity 2) was pushed, the
\* backend accepted only 1 line, and the local cart is that 1 line.
LocalWinsWitness ==
    /\ hist.path = "local"
    /\ Len(hist.sent) = 2
    /\ \E i \in 1..2 : hist.sent[i].quantity = 2
    /\ Len(hist.resp) = 1
    /\ Len(items) = 1

\* C3: bootstrap gate.  While a session's bootstrap has not completed, no push
\* of the local cart is scheduled (no timer pending) and none has been sent.
BootstrapGate == Bootstrapping => timers = {} /\ ~hist.early

\* C4: debounce collapsing.  For the burst of mutations made while synced whose
\* last mutation is burst.age ago: before the window has elapsed no push has
\* been sent and exactly one timer is pending, started at the last mutation
\* with the cart as of that mutation; after the window exactly one push has
\* been sent, SYNC_DEBOUNCE_MS after the last mutation, carrying that cart.
PushedOnceAfterBurst ==
    /\ burst.pushes = 1
    /\ burst.firedAt = SYNC_DEBOUNCE_MS
    /\ SameAsPayload(items, burst.snap)
    /\ timers = {}

PendingSinceLastMutation ==
    /\ burst.pushes = 0
    /\ Cardinality(timers) = 1
    /\ \A t \in timers : t.elapsed = burst.age /\ SameAsPayload(items, t.payload)

DebounceCollapsing ==
    burst.n > 0 =>
        /\ burst.age < SYNC_DEBOUNCE_MS => PendingSinceLastMutation
        /\ burst.age = SYNC_DEBOUNCE_MS =>
              PendingSinceLastMutation \/ PushedOnceAfterBurst
        /\ burst.age > SYNC_DEBOUNCE_MS => PushedOnceAfterBurst

\* C4 witness: three mutations, each less than the window after the previous,
\* of a non-empty cart, and the window has passed since the third.
DebounceWitness ==
    /\ burst.n = 3
    /\ burst.age > SYNC_DEBOUNCE_MS
    /\ burst.pushes = 1
    /\ Len(burst.snap) = 2

\* C5: no out-of-order pushes.  At most one debounce timer is pending, and the
\* backend never applies a push sent before one it has already applied.
NoOutOfOrderPush ==
    /\ Cardinality(timers) <= 1
    /\ lastApplied # "stale"

(***************************************************************************)
(* Claims about the TTL cache layer (checked under CacheSpec)              *)
(***************************************************************************)
\* An entry written by writeCache that is no older than ttl at time t.
ValidEntry(raw, ttl, t) == raw.kind = "entry" /\ t - raw.timestamp <= ttl

\* C6  Cache TTL: a cache read of fetchWithCache(k, ., ttl) that finds the
\* entry a successful fetch stored at time T returns its data unchanged and
\* leaves the entry when now - T <= ttl, and returns the miss and deletes the
\* entry when now - T > ttl, ttl being the one of the reading call.
CacheTTL ==
    last.didRead /\ last.seen.kind = "entry" =>
        IF last.at - last.seen.timestamp <= last.ttl
        THEN last.result = last.seen.data /\ last.after = last.seen
        ELSE last.result = NullData /\ last.after = Absent

\* A read exactly ttl after the write still returns the data.
CacheTTLWitness ==
    /\ last.didRead
    /\ last.seen.kind = "entry"
    /\ last.at - last.seen.timestamp = last.ttl
    /\ last.result = last.seen.data

\* C7  Offline fallback: a fetchWithCache call made while connectivity is
\* reported false and the key has an entry valid under the call's ttl returns
\* the cached value and does not invoke the fetcher.
OfflineFallback ==
    last.step = "call" /\ last.offline /\ ValidEntry(last.seen, last.ttl, last.at) =>
        /\ ~last.invoked
        /\ last.outcome = "data"
        /\ last.value = last.seen.data

OfflineFallbackWitness ==
    /\ last.step = "call"
    /\ last.offline
    /\ ValidEntry(last.seen, last.ttl, last.at)
    /\ last.outcome = "data"
    /\ pending = {}

\* A call with default fallbackOnError whose fetcher threw, within ttl of the
\* last successful fetch of the same key, nothing having invalidated the key
\* or fetched it anew since.
FailsAfterSuccess ==
    /\ last.step = "reject"
    /\ last.fallbackOnError
    /\ fresh[last.key].data # NullData
    /\ last.at - fresh[last.key].at <= last.ttl

\* C8 (as stated)  Write-through on success: after fetchWithCache(k, ...)
\* succeeded with v, a later call for k whose fetcher throws returns v, when
\* it happens within ttl and no invalidation or newer successful fetch of k
\* came in between.
WriteThroughAsStated ==
    FailsAfterSuccess =>
        last.outcome = "data" /\ last.value = fresh[last.key].data

\* C8 (amended)  ... provided also that the cache write of v succeeded and the
\* key has stayed in the storage since.
WriteThrough ==
    FailsAfterSuccess /\ last.held =>
        last.outcome = "data" /\ last.value = fresh[last.key].data

WriteThroughWitness ==
    /\ FailsAfterSuccess
    /\ last.held
    /\ last.at > fresh[last.key].at
    /\ last.value = fresh[last.key].data

\* C9  fetchWithCache throws the fetcher's error exactly when the fetcher was
\* invoked and failed and either fallbackOnError is false or the key has no
\* entry valid under ttl; otherwise a failing fetcher yields the valid cached
\* value.
ErrorSignalling ==
    /\ last.step = "reject" =>
          /\ last.outcome = "error" <=>
                (~last.fallbackOnError \/ ~ValidEntry(last.seen, last.ttl, last.at))
          /\ last.outcome # "error" =>
                last.outcome = "data" /\ last.value = last.seen.data
    /\ last.step # "reject" => last.outcome # "error"

\* The error is thrown although a valid entry exists, fallbackOnError being false.
ErrorSignallingWitness ==
    /\ last.step = "reject"
    /\ ~last.fallbackOnError
    /\ ValidEntry(last.seen, last.ttl, last.at)
    /\ last.outcome = "error"

\* C10  Corrupt entry handling: a key whose stored value is not valid JSON or
\* has no timestamp is treated as a missing key (never returned as data, the
\* fetcher invoked, its failure thrown), and the entry is deleted when read.
CorruptEntryHandling ==
    last.seen.kind \in {"empty", "garbage", "jsonnull", "notimestamp"} =>
        /\ last.step = "call" => last.invoked /\ last.outcome = "pending"
        /\ last.step = "reject" => last.outcome = "error"
        /\ last.didRead => last.result = NullData /\ last.after = Absent

(***************************************************************************)
(* Claims about the cart store (checked under CartSpec)                    *)
(***************************************************************************)
DistinctProducts(its) ==
    \A i, j \in 1..Len(its) : i # j => its[i].product # its[j].product

\* C11  Cart uniqueness and add idempotence: the cart holds at most one line
\* per product id; addItem of a product already in the cart raises that line's
\* quantity by exactly 1 and leaves every other line and the order as they
\* were; addItem of a product not in the cart appends one line of quantity 1;
\* two successive adds of a new product leave one line of quantity 2.
CartUniqueness ==
    /\ DistinctProducts(items)
    /\ op.name = "add" /\ HasProduct(op.before, op.product) =>
          /\ Len(items) = Len(op.before)
          /\ \A i \in 1..Len(items) :
                /\ items[i].product = op.before[i].product
                /\ items[i].quantity = op.before[i].quantity +
                      (IF items[i].product = op.product THEN 1 ELSE 0)
    /\ op.name = "add" /\ ~HasProduct(op.before, op.product) =>
          /\ Len(items) = Len(op.before) + 1
          /\ \A i \in 1..Len(op.before) : items[i] = op.before[i]
          /\ items[Len(items)] = [product |-> op.product, quantity |-> 1]
    /\ op.streak = 2 =>
          /\ Cardinality({i \in 1..Len(items) : items[i].product = op.product}) = 1
          /\ \A i \in 1..Len(items) :
                items[i].product = op.product => items[i].quantity = 2

\* A product was added twice in a row to a cart holding another product.
CartUniquenessWitness ==
    /\ op.streak = 2
    /\ Len(items) = 2
    /\ items[1].product # op.product
    /\ items[2] = [product |-> op.product, quantity |-> 2]

\* C12  Quantity floor: updateQuantity(id, q) leaves the line of id with
\* quantity q when q >= 1 and with quantity 1 when q < 1, the other lines as
\* they were; every line of the cart has a quantity of at least 1.
QuantityFloor ==
    /\ \A i \in 1..Len(items) : items[i].quantity >= 1
    /\ op.name = "update" =>
          /\ Len(items) = Len(op.before)
          /\ \A i \in 1..Len(items) :
                /\ items[i].product = op.before[i].product
                /\ items[i].quantity =
                      IF items[i].product # op.product THEN op.before[i].quantity
                      ELSE IF op.quantity < 1 THEN 1
                      ELSE op.quantity

\* updateQuantity with a quantity below 1 took a line of quantity 2 to 1.
QuantityFloorWitness ==
    /\ op.name = "update"
    /\ op.quantity < 1
    /\ \E i \in 1..Len(items) :
          /\ items[i].product = op.product
          /\ op.before[i].quantity = 2
          /\ items[i].quantity = 1

(***************************************************************************)
(* Claims about the session (checked under SessionSpec)                    *)
(***************************************************************************)
\* C13  Session pairing: after every completed setSession, clearSession or
\* rehydration, user and token are both present or both absent, and the HTTP
\* client's bearer credential is the stored token (none when it is absent).
SessionPairing ==
    /\ user = NoIdentity <=> token = NoToken
    /\ bearer = token

\* A reload has rehydrated a persisted session.
SessionPairingWitness ==
    /\ sess.step = "rehydrate"
    /\ user # NoIdentity
    /\ token # NoToken
    /\ bearer = token

\* C14  Session revalidation failure: when the backend rejects the who-am-I
\* request made for the session's token, the session is cleared (user and
\* token absent, no bearer credential), also when a cached identity exists;
\* the session never keeps a token whose revalidation was rejected.
RevalidationFailure ==
    sess.step = "rejected" /\ sess.denied =>
        /\ token # sess.token
        /\ sess.active => user = NoIdentity /\ token = NoToken /\ bearer = NoToken

\* The rejection arrived while a valid cached identity was in the cache.
RevalidationFailureWitness ==
    /\ sess.step = "rejected"
    /\ sess.denied
    /\ sess.active
    /\ sess.token # NoToken
    /\ ValidEntry(getItem(storage, WhoAmIKey), WHOAMI_TTL_MS, now)
    /\ token = NoToken

\* C18  Bootstrap failure is non-fatal: when the bootstrap's fetch or its push
\* fails, the step leaves the local cart and the user as they were and the
\* sync state becomes Synced; the next change of the local cart then schedules
\* a debounced push of the cart as changed.
BootstrapFailureNonFatal ==
    [][/\ hist.path = "running" /\ hist'.path \in {"fetchfail", "pushfail"} =>
            /\ items' = items
            /\ userId' = userId
            /\ Synced'
       /\ hist.path \in {"fetchfail", "pushfail"} /\ userId' = userId /\ items' # items =>
            \E t \in timers' :
                /\ t.id = timeout'
                /\ t.elapsed = 0
                /\ SameAsPayload(items', t.payload)]_vars

\* The bootstrap's push of a local cart has failed; the cart still has its
\* lines and the sync state is Synced.
BootstrapFailureWitness ==
    /\ hist.path = "pushfail"
    /\ Len(hist.local) > 0
    /\ items = hist.local
    /\ Synced
    /\ timers = {}

\* C19  Logout resets synchronisation: with no user the sync state is Idle
\* (bootstrap flag unset, no bootstrap running), no push is pending and none
\* is sent; in the session a login from that state starts, no push is
\* scheduled or sent until its bootstrap has completed.
LogoutResets ==
    [][/\ userId' = NoUser =>
            /\ ~initializedRef'
            /\ boot'.pc = "none"
            /\ timers' = {}
            /\ inflight' = << >>
       /\ userId = NoUser /\ userId' # NoUser =>
            /\ boot'.pc = "fetching"
            /\ hist'.fromIdle
       /\ Bootstrapping' /\ hist'.fromIdle => timers' = {} /\ ~hist'.early]_vars

\* A user logged out in the middle of a bootstrap and has logged in again
\* with lines in the cart; the new bootstrap has fetched the server's cart.
LogoutResetsWitness ==
    /\ orphan = "awaiting"
    /\ hist.fromIdle
    /\ boot.pc = "fetched"
    /\ items # << >>
    /\ ~initializedRef
    /\ timers = {}

\* C20  Cancellation on teardown: a logout or an unmount leaves no debounce
\* timer pending, and none fires afterwards; the return of a bootstrap that
\* was in flight then changes neither the cart nor the bootstrap flag nor the
\* timers.
CancellationOnTeardown ==
    [][/\ userId' = NoUser \/ boot'.pc = "unmounted" =>
            /\ timers' = {}
            /\ Len(inflight') <= Len(inflight)
       /\ orphan = "awaiting" /\ orphan' = NoOrphan =>
            /\ items' = items
            /\ initializedRef' = initializedRef
            /\ timers' = timers
            /\ boot' = boot]_vars

\* The result of a cancelled bootstrap came back while the next session's
\* bootstrap was still running, and the session is not marked Synced.
CancellationWitness ==
    /\ lastApplied = "cancelled"
    /\ Bootstrapping
    /\ ~initializedRef
    /\ items # << >>

\* C24  Direct user change: in a session entered from another user's session
\* (no logged-out state in between), no push of the local cart is scheduled
\* or sent before the new user's bootstrap has completed.
DirectSwitchGate ==
    Bootstrapping /\ ~hist.fromIdle => timers = {} /\ ~hist.early

(***************************************************************************)
(* Claims about the command interpreter                                    *)
(***************************************************************************)
IsCommand == cmd.step \in {"text", "voice"}

QuantityOf(its, p) ==
    IF HasProduct(its, p)
    THEN its[CHOOSE i \in 1..Len(its) : its[i].product = p].quantity
    ELSE 0

OtherLinesKept(before, after, p) ==
    SelectSeq(after, LAMBDA it : it.product # p) = SelectSeq(before, LAMBDA it : it.product # p)

\* the instruction's text once the add keyword is removed
AfterAddKeyword(instruction) == SelectSeq(instruction, LAMBDA w : w \notin AddWords)

AddWithQuantity(instruction) ==
    /\ \E i \in 1..Len(instruction) : instruction[i] \in AddWords
    /\ AfterAddKeyword(instruction) # << >>
    /\ AfterAddKeyword(instruction)[Len(AfterAddKeyword(instruction))] \in DigitWords

StatedQuantity(instruction) ==
    LET n == Number(AfterAddKeyword(instruction)[Len(AfterAddKeyword(instruction))])
    IN  IF n < 1 THEN 1 ELSE n

\* the search text: the digits removed, normalized
StatedSearch(instruction) ==
    LET rest == AfterAddKeyword(instruction)
    IN  SelectSeq(SubSeq(rest, 1, Len(rest) - 1), LAMBDA w : w \notin Punctuation)

NameOf(cat, i) == SelectSeq(cat[i].nombre, LAMBDA w : w \notin Punctuation)

\* the products of the catalog whose name has every word of the search text
Matching(cat, search) ==
    IF cat = NotLoaded \/ search = << >> THEN {}
    ELSE {cat[i].id : i \in {j \in 1..Len(cat) :
                \A k \in 1..Len(search) : \E m \in 1..Len(NameOf(cat, j)) :
                    NameOf(cat, j)[m] = search[k]}}

\* the single product a search resolves to: the one whose normalized name is
\* the search text, or the only candidate
Resolved(cat, search) ==
    IF Matching(cat, search) = {} THEN NoProduct
    ELSE IF \E i \in 1..Len(cat) : NameOf(cat, i) = search
    THEN cat[CHOOSE i \in 1..Len(cat) : NameOf(cat, i) = search].id
    ELSE IF Cardinality(Matching(cat, search)) = 1
    THEN CHOOSE p \in Matching(cat, search) : TRUE
    ELSE NoProduct

\* C15  Command add with quantity: for an add instruction whose text after
\* the add keyword ends in digits n, when the search text (digits removed)
\* resolves to a single product P, P's quantity in the cart grows by exactly
\* max(1, n) if P was in the cart, and P is inserted with exactly that
\* quantity otherwise; the other lines are untouched.
CommandAddQuantity ==
    IsCommand /\ AddWithQuantity(cmd.instruction)
              /\ Resolved(cmd.catalog, StatedSearch(cmd.instruction)) # NoProduct =>
        LET P == Resolved(cmd.catalog, StatedSearch(cmd.instruction))
            n == StatedQuantity(cmd.instruction)
        IN  /\ QuantityOf(items, P) = QuantityOf(cmd.before, P) + n
            /\ OtherLinesKept(cmd.before, items, P)

HasKeyword(instruction, ws) == \E i \in 1..Len(instruction) : instruction[i] \in ws

NoIntentKeyword(instruction) ==
    ~HasKeyword(instruction, AddWords \cup RemoveWords \cup ClearWords \cup PayWords)

IsAddInstruction(instruction) == HasKeyword(instruction, AddWords)

IsRemoveInstruction(instruction) ==
    ~HasKeyword(instruction, AddWords) /\ HasKeyword(instruction, RemoveWords)

Unpunctuated(text) == SelectSeq(text, LAMBDA w : w \notin Punctuation)

\* the text an add or remove instruction searches the catalog for
SearchOf(cat, instruction) ==
    IF IsAddInstruction(instruction)
    THEN IF AddWithQuantity(instruction) /\ Matching(cat, StatedSearch(instruction)) # {}
         THEN StatedSearch(instruction)
         ELSE Unpunctuated(AfterAddKeyword(instruction))
    ELSE Unpunctuated(SelectSeq(instruction, LAMBDA w : w \notin RemoveWords))

Searches(instruction) == IsAddInstruction(instruction) \/ IsRemoveInstruction(instruction)

Ambiguous(cat, instruction) ==
    /\ Searches(instruction)
    /\ Cardinality(Matching(cat, SearchOf(cat, instruction))) > 1
    /\ Resolved(cat, SearchOf(cat, instruction)) = NoProduct

\* C16  Unresolved commands leave the cart unmodified: an instruction with no
\* intent keyword, an add or remove instruction whose search matches no
\* product, and an ambiguous one (several matches, none exact) do not change
\* the cart; for the ambiguous one the candidate list shown holds every
\* matching product.
UnresolvedLeavesCart ==
    IsCommand =>
        /\ NoIntentKeyword(cmd.instruction) => items = cmd.before
        /\ Searches(cmd.instruction)
             /\ Matching(cmd.catalog, SearchOf(cmd.catalog, cmd.instruction)) = {}
             => items = cmd.before
        /\ Ambiguous(cmd.catalog, cmd.instruction) =>
             /\ items = cmd.before
             /\ {commandSuggestions[i] : i \in 1..Len(commandSuggestions)}
                  = Matching(cmd.catalog, SearchOf(cmd.catalog, cmd.instruction))

\* Several products matched an add instruction and the cart, which had lines,
\* kept them.
UnresolvedLeavesCartWitness ==
    /\ IsCommand
    /\ IsAddInstruction(cmd.instruction)
    /\ Ambiguous(cmd.catalog, cmd.instruction)
    /\ Len(commandSuggestions) = 2
    /\ suggestionMode = "add"
    /\ items # << >>
    /\ items = cmd.before

\* classified as the clear intent: a clear keyword and no add or remove keyword
IsClearInstruction(instruction) ==
    /\ ~HasKeyword(instruction, AddWords \cup RemoveWords)
    /\ HasKeyword(instruction, ClearWords)

\* C17  Command clear: an instruction classified as the clear intent empties
\* a non-empty cart, whatever the catalog is (loaded, empty or not yet loaded)
\* and whatever the cart holds.
CommandClear ==
    IsCommand /\ IsClearInstruction(cmd.instruction) /\ cmd.before # << >> => items = << >>

\* the intent of highest priority whose keyword the instruction contains
Highest(instruction) ==
    IF HasKeyword(instruction, AddWords) THEN "add"
    ELSE IF HasKeyword(instruction, RemoveWords) THEN "remove"
    ELSE IF HasKeyword(instruction, ClearWords) THEN "clear"
    ELSE IF HasKeyword(instruction, PayWords) THEN "checkout"
    ELSE "unknown"

LinesKept(before, after) ==
    \A i \in 1..Len(before) : HasProduct(after, before[i].product)

\* C23  Intent priority: an instruction is classified by keyword presence in
\* the order add, remove, clear, checkout and the first match wins; a command
\* has the effect of that intent alone: an add instruction removes no line, a
\* remove instruction takes away at most one product's line and adds nothing,
\* a clear instruction only empties, the others leave the cart.
IntentPriority ==
    IsCommand =>
        /\ cmd.intent # "none" => cmd.intent = Highest(cmd.instruction)
        /\ Highest(cmd.instruction) = "add" => LinesKept(cmd.before, items)
        /\ Highest(cmd.instruction) = "remove" =>
              \E p \in Products \cup {NoProduct} : items = removeItem(cmd.before, p)
        /\ Highest(cmd.instruction) = "clear" => items \in {<< >>, cmd.before}
        /\ Highest(cmd.instruction) \in {"checkout", "unknown"} => items = cmd.before

\* An instruction with an add and a clear keyword took the add branch and the
\* cart kept its lines.
IntentPriorityWitness ==
    /\ IsCommand
    /\ HasKeyword(cmd.instruction, AddWords)
    /\ HasKeyword(cmd.instruction, ClearWords)
    /\ cmd.intent = "add"
    /\ cmd.before # << >>
    /\ items = cmd.before

(***************************************************************************)
(* Further claims about the cart synchronisation process                   *)
(***************************************************************************)
SentQuantity(payload, p) ==
    IF \E i \in 1..Len(payload) : payload[i].productId = p
    THEN payload[CHOOSE i \in 1..Len(payload) : payload[i].productId = p].quantity
    ELSE 0

\* C25  In the local-wins path a mutation made after the bootstrap read the
\* local items and before the push response is applied is not lost: when the
\* bootstrap completes, every product whose line differs from the one that
\* was sent still has the line the user gave it.
MutationSurvivesBootstrap ==
    [][boot.pc \in {"pushing", "pushed"} /\ hist'.path = "local" =>
          \A p \in Products :
              QuantityOf(items, p) # SentQuantity(hist.sent, p) =>
                  QuantityOf(items', p) = QuantityOf(items, p)]_vars

\* C26: eventual push.  While the user stays logged in, the sync state is Synced
\* and the component stays mounted, a local cart mutation that has not been
\* pushed yet is eventually followed by a push whose payload is the cart
\* contents at or after that mutation.
MutationUnpushed == Synced /\ burst.n > 0 /\ burst.pushes = 0

MutationPushed == burst.pushes > 0 /\ SameAsPayload(items, burst.snap)

NoPushFromHydration ==
    [][Bootstrapping /\ boot'.pc = "done" => timers' \subseteq timers]_vars

\* C30: logout leaves the cart store's items (which the store persists on every
\* change) as they are, and the items present at logout, if not changed since,
\* are the local cart that the next login's bootstrap reconciles, also when the
\* next login is by a different user.
LocalCartRead ==
    hist.path \in {"server", "empty", "local", "pushfail"} \/ boot.pc \in {"pushing", "pushed"}

LogoutKeepsCart ==
    [][/\ userId # NoUser /\ userId' = NoUser => items' = items
       /\ hist'.left.user # NoUser /\ boot'.pc \in {"none", "fetching", "fetched"} =>
              items' = hist'.left.items
       /\ hist'.left.user # NoUser /\ LocalCartRead' => hist'.local = hist'.left.items]_vars

\* C30 witness: user 1 logged out leaving a cart, user 2 logged in, found an
\* empty server cart, and the bootstrap pushed the cart user 1 left.
LogoutKeepsCartWitness ==
    /\ hist.left.user = 1
    /\ userId = 2
    /\ hist.path = "local"
    /\ hist.local = hist.left.items
    /\ hist.sent = Payload(hist.left.items)
    /\ hist.local # << >>

(***************************************************************************)
(* Further claims about the session (checked under SessionSpec)            *)
(***************************************************************************)
Settled == {"cached", "resolved", "rejected"}

\* A who-am-I call settles in this step, and the token it was started for is
\* no longer the session's token.
LateResult == revals' # revals /\ sess'.step \in Settled /\ sess'.token # token

\* C28: a who-am-I result (success or failure) that arrives after the token
\* that triggered it has been cleared or replaced is ignored: the session
\* (user, token, bearer credential, persisted session) stays as it is.
LateResultIgnored ==
    [][LateResult => UNCHANGED <<user, token, bearer, persisted>>]_vars

\* C28 witness: a late result has been ignored, a rejection after a newer
\* session was established or a success after logout.
LateResultWitness ==
    /\ sess.step \in Settled
    /\ ~sess.active
    /\ sess.token # token
    /\ \/ sess.step = "rejected" /\ token # NoToken /\ user # NoIdentity
       \/ sess.step = "resolved" /\ token = NoToken /\ user = NoIdentity

\* C29: the identity that revalidation installs in the session store is the
\* backend's answer for the token currently in the session, never a user record
\* cached under a different token or user.
RevalidationInstallsOwnIdentity ==
    sess.step \in {"cached", "resolved"} /\ sess.active => user = issued[token]

(***************************************************************************)
(* Claims about clearExpiredCache                                          *)
(***************************************************************************)
\* an entry under the cache prefix that is unparsable, has no timestamp, or
\* is older than the default ttl
StaleEntry(e, t) ==
    /\ e.key \notin ForeignKeys
    /\ \/ e.raw.kind \in {"empty", "garbage", "jsonnull", "notimestamp"}
       \/ e.raw.kind = "entry" /\ t - e.raw.timestamp > DEFAULT_TTL_MS

\* C21  clearExpiredCache sweeps all keys under the cache prefix: after one
\* call no entry under the prefix remains that is unparsable, has no
\* timestamp or is older than the default ttl, whatever the number and the
\* arrangement of such entries.
SweepComplete ==
    last.step = "sweep" => \A i \in 1..Len(storage) : ~StaleEntry(storage[i], now)

(***************************************************************************)
(* Claims about the admin mutations                                        *)
(***************************************************************************)
\* C22  Cache invalidation after admin mutations: after a successful admin
\* create, update or delete of a product, a category or a discount the cache
\* entries of the related read lists are deleted, so a read served from the
\* cache never returns a list that was cached before the mutation.
InvalidationAfterMutation ==
    /\ last.step = "mutation" =>
          \A k \in ChangedLists(last.key) : IndexOfKey(storage, k) = 0
    /\ last.step = "cacheread" /\ last.result # NullData => ~last.held

====
